---- MODULE Spec2Model ----
(***************************************************************************)
(* Pagination core of static/js/editor2.js (the Quill half of the file):   *)
(* the page registry `editors`, the .page elements of the DOM, overflow    *)
(* splitting, Enter at the start of a page, deletion of empty pages and    *)
(* renumbering.                                                            *)
(*                                                                         *)
(* A Quill instance is an object identity q in 1..MaxQuills.  Its content  *)
(* is the sequence of ops of its Delta (the "content units"); a cursor     *)
(* offset counts units, so getLength() is Len(content[q]) + 1 (the         *)
(* trailing newline Quill always keeps).  The handlers registered by       *)
(* createQuillEditor close over the containerId string they were created   *)
(* with; cid[q] is the number in that string.                              *)
(***************************************************************************)
EXTENDS Integers, Sequences, FiniteSets, TLC

VARIABLES
    dom,            \* the .page elements in document order: [id, q]
    editors,        \* the registry `editors`: page number -> Quill instance
    cid,            \* per Quill instance: number of the captured containerId
    content,        \* per Quill instance: its ops
    currentPage,    \* global currentPage
    activeEditor,   \* global activeEditor
    sel,            \* the focused instance and its cursor offset (q = 0: none)
    display,        \* text of #currentPageDisplay
    timers,         \* pending setTimeout callbacks, in firing order
    lastSaved,      \* text of #lastSaved
    stream,         \* history: the document as one unpaginated sequence of units
    nextUnit,       \* history: identity given to the next unit typed
    last,           \* history: the event handled last
    darkMode,       \* global darkMode
    bodyClass,      \* classes of document.body among "dark" and "dark-theme"
    animationsEnabled, \* global animationsEnabled
    storage,        \* localStorage: key -> stored string
    storageOk,      \* whether localStorage can be used (else every use throws)
    input,          \* the argument of a function checked on its own
    output,         \* what that function returned
    call,           \* the structural operation in progress, with its locals
    analysisEnabled,        \* global analysisEnabled: type -> switched on
    currentSuggestions,     \* global currentSuggestions: the ids it holds
    suggestionsList,        \* children of #suggestionsList, in document order
    removals,               \* pending timers of removeSuggestionsByType, in firing order
    paragraphAnalysisQueue, \* global paragraphAnalysisQueue, in insertion order
    inflight,               \* analyze_text requests sent and not yet answered
    status,                 \* what #statusIndicator shows
    editorData,             \* editor.getData(): the paragraphs of the document
    analysisTimeout,        \* whether the timer analysisTimeout is pending
    sent                    \* history: the numbers of the entries emitted, in order

vars == <<dom, editors, cid, content, currentPage, activeEditor, sel, display,
          timers, lastSaved, stream, nextUnit, last, darkMode, bodyClass,
          animationsEnabled, storage, storageOk, input, output, call,
          analysisEnabled, currentSuggestions, suggestionsList, removals,
          paragraphAnalysisQueue, inflight, status, editorData, analysisTimeout,
          sent>>

\* The state of the analysis panel.
analysisVars == <<analysisEnabled, currentSuggestions, suggestionsList, removals,
                  paragraphAnalysisQueue, inflight, status, editorData,
                  analysisTimeout, sent>>

\* What the pagination handlers never touch.
others == <<darkMode, bodyClass, animationsEnabled, storage, storageOk, input, output,
            call, analysisVars>>

\* ---------------------------------------------------------------- bounds
MaxQuills == 3
MaxUnits == 2
MaxTimers == 1

\* pageHeight = (297 - 40) * 3.78 = 971.46; scrollHeight is an integer, so
\* scrollHeight > pageHeight exactly when scrollHeight > 971
pageHeight == 971

Kinds == {"text", "image"}

\* ---------------------------------------------------------------- helpers
\* Math.max(...): of no arguments it is -Infinity, written -1 here.
Max(S) == IF S = {} THEN -1 ELSE CHOOSE x \in S : \A y \in S : y <= x

InsertAt(seq, i, x) == SubSeq(seq, 1, i) \o <<x>> \o SubSeq(seq, i + 1, Len(seq))

RemoveAt(seq, i) == SubSeq(seq, 1, i - 1) \o SubSeq(seq, i + 1, Len(seq))

NoSel == [q |-> 0, idx |-> 0]

\* No structural operation is in progress.
NoCall == [pc |-> "idle", q |-> 0, el |-> 0, ops |-> <<>>, moveOps |-> <<>>,
           emit |-> 0, source |-> "none", after |-> "idle"]

\* The state of the page, as one record the functions below transform.
Cur ==
    [dom |-> dom, editors |-> editors, cid |-> cid, content |-> content,
     currentPage |-> currentPage, activeEditor |-> activeEditor, sel |-> sel,
     display |-> display, timers |-> timers, lastSaved |-> lastSaved]

Commit(s) ==
    /\ dom' = s.dom
    /\ editors' = s.editors
    /\ cid' = s.cid
    /\ content' = s.content
    /\ currentPage' = s.currentPage
    /\ activeEditor' = s.activeEditor
    /\ sel' = s.sel
    /\ display' = s.display
    /\ timers' = s.timers
    /\ lastSaved' = s.lastSaved
    /\ UNCHANGED others

\* ---------------------------------------------------------------- layout
\* Rendered height of one unit, in pixels: a paragraph of text takes 500,
\* an image 1000 (more than a page on its own).
UnitHeight(u) == IF u.kind = "image" THEN 1000 ELSE 500

RECURSIVE ScrollHeight(_)
ScrollHeight(ops) ==
    IF ops = <<>> THEN 0 ELSE UnitHeight(Head(ops)) + ScrollHeight(Tail(ops))

\* quill.getText(): the text of the string inserts (embeds contribute
\* nothing), then the trailing newline.
\* The characters of a string insert: those the unit records, "x" for a
\* unit typed without any.
UnitText(u) == IF "text" \in DOMAIN u THEN u.text ELSE <<"x">>

RECURSIVE UnitsText(_)
UnitsText(ops) ==
    IF ops = <<>> THEN <<>>
    ELSE (IF Head(ops).kind = "text" THEN UnitText(Head(ops)) ELSE <<>>)
         \o UnitsText(Tail(ops))

\* Mutant: the text without the line terminator the widget keeps.
getText_NoTerminator(ops) == UnitsText(ops)

getText(ops) == UnitsText(ops) \o <<"\n">>

IsSpace(c) == c \in {" ", "\n"}

RECURSIVE TrimLeft(_)
TrimLeft(t) ==
    IF t # <<>> /\ IsSpace(Head(t)) THEN TrimLeft(Tail(t)) ELSE t

RECURSIVE TrimRight(_)
TrimRight(t) ==
    IF t # <<>> /\ IsSpace(t[Len(t)]) THEN TrimRight(SubSeq(t, 1, Len(t) - 1)) ELSE t

trim(t) == TrimRight(TrimLeft(t))

isPageEmpty(ops) ==
    LET text == getText(ops) IN text = <<"\n">> \/ trim(text) = <<>>

\* ---------------------------------------------------------------- DOM queries
\* Index in document order of the first page element whose id carries the
\* number n (getElementById / querySelector), 0 when there is none.
ElementIndex(s, n) ==
    IF \E i \in 1..Len(s.dom) : s.dom[i].id = n
    THEN CHOOSE i \in 1..Len(s.dom) :
            /\ s.dom[i].id = n
            /\ \A j \in 1..(i - 1) : s.dom[j].id # n
    ELSE 0

\* Position of the page element holding instance q, 0 once it is removed.
RankOf(s, q) ==
    IF \E i \in 1..Len(s.dom) : s.dom[i].q = q
    THEN CHOOSE i \in 1..Len(s.dom) : s.dom[i].q = q
    ELSE 0

\* The text-change handler of an instance, defined with the overflow check.
RECURSIVE TextChange(_, _, _)

\* quill.setContents(ops): the cursor of the instance is kept inside the
\* new content, and the change is emitted to the text-change handler of the
\* instance with the default source, 'api'.
setContents(s, q, ops) ==
    TextChange([s EXCEPT !.content[q] = ops,
                         !.sel = IF s.sel.q = q /\ s.sel.idx > Len(ops)
                                 THEN [q |-> q, idx |-> Len(ops)] ELSE s.sel],
               q, "api")

updateCurrentPageDisplay(s, n) == [s EXCEPT !.display = n]

\* The selection-change handler of instance q, run with a non-null range.
SelectionChange(s, q) ==
    updateCurrentPageDisplay([s EXCEPT !.activeEditor = q], s.cid[q])

\* q.focus(); q.setSelection(idx): nothing happens on a detached instance,
\* the index is kept inside the content, and selection-change is emitted
\* only when the range changes.
FocusAt(s, q, idx) ==
    LET to == [q |-> q, idx |-> IF idx > Len(s.content[q]) THEN Len(s.content[q]) ELSE idx]
    IN IF RankOf(s, q) = 0 THEN s
       ELSE IF s.sel = to THEN s
       ELSE SelectionChange([s EXCEPT !.sel = to], q)

\* ---------------------------------------------------------------- page registry
updatePageCount(s) == [s EXCEPT !.currentPage = Max(DOMAIN s.editors)]

createNewPage(s) ==
    LET n == s.currentPage + 1
        q == Cardinality(DOMAIN s.cid) + 1
        s1 == [s EXCEPT !.currentPage = n,
                        !.dom = Append(s.dom, [id |-> n, q |-> q]),
                        !.cid = (q :> n) @@ s.cid,
                        !.content = (q :> <<>>) @@ s.content,
                        !.editors = (n :> q) @@ s.editors]
    IN updatePageCount(s1)

\* Mutant: the pages are counted but neither relabelled nor re-registered.
renumberPages_NoRelabel(s) == [s EXCEPT !.currentPage = Len(s.dom)]

renumberPages(s) ==
    LET N == Len(s.dom)
        kept == {i \in 1..N : s.dom[i].id \in DOMAIN s.editors}
    IN [s EXCEPT !.dom = [i \in 1..N |-> [s.dom[i] EXCEPT !.id = i]],
                 !.editors = [i \in kept |-> s.editors[s.dom[i].id]],
                 !.currentPage = N]

\* The part of deleteEmptyPage between its guards and renumberPages: the
\* page element and the registry entry are removed and the focus of the
\* previous page is deferred.
RemovePage(s, pageNum) ==
    LET at == ElementIndex(s, pageNum)
        gone == s.dom[at].q
        prevPageNum == pageNum - 1
        s1 == [s EXCEPT !.dom = RemoveAt(s.dom, at),
                        !.editors = [k \in DOMAIN s.editors \ {pageNum} |-> s.editors[k]],
                        !.sel = IF s.sel.q = gone THEN NoSel ELSE s.sel]
    IN IF prevPageNum \in DOMAIN s1.editors
       THEN [s1 EXCEPT !.activeEditor = s1.editors[prevPageNum],
                       !.timers = Append(s1.timers,
                           [kind |-> "focusPrev", n |-> prevPageNum, idx |-> 0])]
       ELSE s1

\* Mutant: deleteEmptyPage without its first guard, pageNum === 1.
deleteEmptyPage_AllowFirst(s, pageNum) ==
    LET at == ElementIndex(s, pageNum)
        refused == [s |-> s, ret |-> FALSE]
    IN IF pageNum \notin DOMAIN s.editors THEN refused
       ELSE IF at = 0 THEN refused
       ELSE IF ~isPageEmpty(s.content[s.editors[pageNum]]) THEN refused
       ELSE
         LET s1 == [s EXCEPT !.dom = RemoveAt(s.dom, at),
                             !.editors = [k \in DOMAIN s.editors \ {pageNum} |-> s.editors[k]],
                             !.sel = IF s.sel.q = s.dom[at].q THEN NoSel ELSE s.sel]
         IN [s |-> updatePageCount(renumberPages(s1)), ret |-> TRUE]

\* Mutant: deleteEmptyPage without renumberPages and updatePageCount.
deleteEmptyPage_NoRenumber(s, pageNum) ==
    LET at == ElementIndex(s, pageNum)
        refused == [s |-> s, ret |-> FALSE]
    IN IF pageNum = 1 THEN refused
       ELSE IF pageNum \notin DOMAIN s.editors THEN refused
       ELSE IF at = 0 THEN refused
       ELSE IF ~isPageEmpty(s.content[s.editors[pageNum]]) THEN refused
       ELSE
         [s |-> [s EXCEPT !.dom = RemoveAt(s.dom, at),
                          !.editors = [k \in DOMAIN s.editors \ {pageNum} |-> s.editors[k]],
                          !.activeEditor = s.editors[pageNum - 1],
                          !.sel = IF s.sel.q = s.dom[at].q THEN NoSel ELSE s.sel],
          ret |-> TRUE]

\* Mutant: deleteEmptyPage without its test of isPageEmpty.
deleteEmptyPage_AnyPage(s, pageNum) ==
    LET at == ElementIndex(s, pageNum)
        refused == [s |-> s, ret |-> FALSE]
    IN IF pageNum = 1 THEN refused
       ELSE IF pageNum \notin DOMAIN s.editors THEN refused
       ELSE IF at = 0 THEN refused
       ELSE
         LET s1 == [s EXCEPT !.dom = RemoveAt(s.dom, at),
                             !.editors = [k \in DOMAIN s.editors \ {pageNum} |-> s.editors[k]],
                             !.activeEditor = s.editors[pageNum - 1],
                             !.sel = IF s.sel.q = s.dom[at].q THEN NoSel ELSE s.sel]
         IN [s |-> updatePageCount(renumberPages(s1)), ret |-> TRUE]

\* Mutant: the element removed is the one before the page found.
deleteEmptyPage_RemovesPrev(s, pageNum) ==
    LET at == ElementIndex(s, pageNum)
        refused == [s |-> s, ret |-> FALSE]
    IN IF pageNum = 1 THEN refused
       ELSE IF pageNum \notin DOMAIN s.editors THEN refused
       ELSE IF at = 0 THEN refused
       ELSE IF ~isPageEmpty(s.content[s.editors[pageNum]]) THEN refused
       ELSE
         LET s1 == [s EXCEPT !.dom = RemoveAt(s.dom, at - 1),
                             !.editors = [k \in DOMAIN s.editors \ {pageNum - 1} |-> s.editors[k]],
                             !.activeEditor = s.editors[pageNum],
                             !.sel = IF s.sel.q = s.dom[at - 1].q THEN NoSel ELSE s.sel]
         IN [s |-> updatePageCount(renumberPages(s1)), ret |-> TRUE]

\* Mutant: the deletion leaves activeEditor as it is.
deleteEmptyPage_KeepsActive(s, pageNum) ==
    LET at == ElementIndex(s, pageNum)
        refused == [s |-> s, ret |-> FALSE]
    IN IF pageNum = 1 THEN refused
       ELSE IF pageNum \notin DOMAIN s.editors THEN refused
       ELSE IF at = 0 THEN refused
       ELSE IF ~isPageEmpty(s.content[s.editors[pageNum]]) THEN refused
       ELSE [s |-> updatePageCount(renumberPages(
                       [RemovePage(s, pageNum) EXCEPT !.activeEditor = s.activeEditor])),
             ret |-> TRUE]

\* deleteEmptyPage(pageNum): the state after the call and the value returned.
deleteEmptyPage(s, pageNum) ==
    LET at == ElementIndex(s, pageNum)
        refused == [s |-> s, ret |-> FALSE]
    IN IF pageNum = 1 THEN refused
       ELSE IF pageNum \notin DOMAIN s.editors THEN refused
       ELSE IF at = 0 THEN refused
       ELSE IF ~isPageEmpty(s.content[s.editors[pageNum]]) THEN refused
       ELSE [s |-> updatePageCount(renumberPages(RemovePage(s, pageNum))), ret |-> TRUE]

\* ---------------------------------------------------------------- overflow
\* The while loop of moveOverflowContent.  el is the instance whose element
\* the captured containerId selects; its scrollHeight is read again after
\* every setContents on q.
\* Mutant: the loop runs while ops.length > 0.
RECURSIVE SplitLoop_Empties(_, _, _, _, _)
SplitLoop_Empties(s, q, el, ops, moveOps) ==
    IF ScrollHeight(s.content[el]) > pageHeight /\ Len(ops) > 0
    THEN LET rest == SubSeq(ops, 1, Len(ops) - 1)
         IN SplitLoop_Empties(setContents(s, q, rest), q, el, rest, <<ops[Len(ops)]>> \o moveOps)
    ELSE [s |-> s, moveOps |-> moveOps]

\* Mutant: the loop runs while ops.length > 2.
RECURSIVE SplitLoop_KeepsTwo(_, _, _, _, _)
SplitLoop_KeepsTwo(s, q, el, ops, moveOps) ==
    IF ScrollHeight(s.content[el]) > pageHeight /\ Len(ops) > 2
    THEN LET rest == SubSeq(ops, 1, Len(ops) - 1)
         IN SplitLoop_KeepsTwo(setContents(s, q, rest), q, el, rest, <<ops[Len(ops)]>> \o moveOps)
    ELSE [s |-> s, moveOps |-> moveOps]

RECURSIVE SplitLoop(_, _, _, _, _)
SplitLoop(s, q, el, ops, moveOps) ==
    IF ScrollHeight(s.content[el]) > pageHeight /\ Len(ops) > 1
    THEN LET rest == SubSeq(ops, 1, Len(ops) - 1)
         IN SplitLoop(setContents(s, q, rest), q, el, rest, <<ops[Len(ops)]>> \o moveOps)
    ELSE [s |-> s, moveOps |-> moveOps]

\* Mutant: the moved units are handed over only when there are several.
moveOverflowContent_DropsOne(s, q, containerId) ==
    LET ops == s.content[q]
        r == SplitLoop(s, q, s.dom[ElementIndex(s, containerId)].q, ops, <<>>)
    IN IF s.currentPage \notin DOMAIN s.editors \/ Len(ops) <= 1 THEN s
       ELSE IF Len(r.moveOps) > 1
            THEN setContents(r.s, s.editors[s.currentPage], r.moveOps)
            ELSE r.s

moveOverflowContent(s, q, containerId) ==
    LET nextPageNum == s.currentPage
        at == ElementIndex(s, containerId)
    IN IF nextPageNum \notin DOMAIN s.editors THEN s
       ELSE LET nextEditor == s.editors[nextPageNum]
                ops == s.content[q]
            IN IF Len(ops) > 1
               THEN LET r == SplitLoop(s, q, s.dom[at].q, ops, <<>>)
                    IN IF Len(r.moveOps) > 0
                       THEN setContents(r.s, nextEditor, r.moveOps)
                       ELSE r.s
               ELSE s

\* Mutant: an element that is not found counts as overflowing.
checkPageOverflow_NoGuard(s, q, containerId) ==
    LET at == ElementIndex(s, containerId)
    IN IF at = 0 THEN createNewPage(s)
       ELSE IF ScrollHeight(s.content[s.dom[at].q]) > pageHeight
            THEN moveOverflowContent(createNewPage(s), q, containerId)
            ELSE s

checkPageOverflow(s, q, containerId) ==
    LET at == ElementIndex(s, containerId)
    IN IF at = 0 THEN s
       ELSE IF ScrollHeight(s.content[s.dom[at].q]) > pageHeight
            THEN moveOverflowContent(createNewPage(s), q, containerId)
            ELSE s

\* The branch of the text-change handler for a change of source 'user'.
\* updateStats only reads, and the callback the handler defers only logs.
TextChangeUser(s, q) ==
    [checkPageOverflow(s, q, s.cid[q]) EXCEPT !.lastSaved = "Unsaved changes"]

\* Mutant: the handler without its test of the source.
TextChange_AnySource(s, q, source) == TextChangeUser(s, q)

\* The text-change handler of instance q: only a change of source 'user'
\* is checked for overflow.
TextChange(s, q, source) ==
    IF source = "user" THEN TextChangeUser(s, q) ELSE s

\* ---------------------------------------------------------------- Enter at start
handleEnterAtBeginning(s, q, containerId) ==
    IF s.sel.q = q /\ s.sel.idx = 0
    THEN LET currentContent == s.content[q]
             s1 == IF (s.currentPage + 1) \notin DOMAIN s.editors
                   THEN createNewPage(s) ELSE s
             nextEditor == s1.editors[s1.currentPage]
             s2 == setContents(s1, nextEditor, currentContent)
             s3 == setContents(s2, q, <<>>)
         IN [s |-> [s3 EXCEPT !.timers = Append(s3.timers,
                        [kind |-> "focusNext", n |-> nextEditor, idx |-> 0])],
             ret |-> TRUE]
    ELSE [s |-> s, ret |-> FALSE]

\* ---------------------------------------------------------------- Backspace at start
\* Called by the keydown handler; the file does not define these two.
isCursorAtBeginning(s, q) == s.sel.q = q /\ s.sel.idx = 0

moveContentToPreviousPage(s, q, containerId) ==
    LET r == RankOf(s, q)
    IN IF r <= 1 \/ (r - 1) \notin DOMAIN s.editors THEN [s |-> s, ret |-> FALSE]
       ELSE
         LET prev == s.editors[r - 1]
             join == Len(s.content[prev])
             s1 == setContents(s, prev, s.content[prev] \o s.content[q])
             s2 == setContents(s1, q, <<>>)
             s3 == [s2 EXCEPT !.dom = RemoveAt(s2.dom, r),
                              !.editors = [k \in DOMAIN s2.editors \ {r} |-> s2.editors[k]],
                              !.sel = IF s2.sel.q = q THEN NoSel ELSE s2.sel,
                              !.activeEditor = prev,
                              !.timers = Append(s2.timers,
                                  [kind |-> "focusJoin", n |-> prev, idx |-> join])]
         IN [s |-> updatePageCount(renumberPages(s3)), ret |-> TRUE]

\* ---------------------------------------------------------------- keydown handler
\* Mutant: the keydown listener without its branch for the cursor at the
\* beginning of a page that is not empty.
KeydownHandler_NoMerge(s, q, key) ==
    LET pageNum == s.cid[q]
    IN IF key \in {"Backspace", "Delete"} /\ pageNum > 1 /\ isPageEmpty(s.content[q])
       THEN LET d == deleteEmptyPage(s, pageNum)
            IN [s |-> d.s, ret |-> IF d.ret THEN "deleted" ELSE "refused"]
       ELSE [s |-> s, ret |-> "default"]

\* The keydown listener of instance q: the state after it and what it did
\* ("default": it returned without calling preventDefault).
KeydownHandler(s, q, key) ==
    LET pageNum == s.cid[q]
        pass == [s |-> s, ret |-> "default"]
    IN IF key = "Backspace" /\ pageNum > 1 /\ isPageEmpty(s.content[q])
       THEN LET d == deleteEmptyPage(s, pageNum)
            IN [s |-> d.s, ret |-> IF d.ret THEN "deleted" ELSE "refused"]
       ELSE IF key = "Backspace" /\ pageNum > 1 /\ isCursorAtBeginning(s, q)
       THEN LET m == moveContentToPreviousPage(s, q, pageNum)
            IN [s |-> m.s, ret |-> IF m.ret THEN "merged" ELSE "refused"]
       ELSE IF key = "Delete" /\ pageNum > 1 /\ isPageEmpty(s.content[q])
       THEN LET d == deleteEmptyPage(s, pageNum)
            IN [s |-> d.s, ret |-> IF d.ret THEN "deleted" ELSE "refused"]
       ELSE pass

\* ---------------------------------------------------------------- timers
RunTimer(s, t) ==
    CASE t.kind = "focusPrev" ->
            LET a == s.activeEditor
            IN updateCurrentPageDisplay(FocusAt(s, a, Len(s.content[a])), t.n)
      [] t.kind = "focusNext" -> FocusAt(s, t.n, 0)
      [] t.kind = "focusJoin" -> FocusAt(s, t.n, t.idx)

\* ---------------------------------------------------------------- export
\* A file is the sequence of the pieces of text appended to it.
\* Object.keys(editors).sort((a, b) => parseInt(a) - parseInt(b)).
\* Mutant: the comparison reversed.
RECURSIVE SortKeys_Descending(_)
SortKeys_Descending(S) ==
    IF S = {} THEN <<>>
    ELSE LET m == Max(S) IN <<m>> \o SortKeys_Descending(S \ {m})

RECURSIVE SortKeys(_)
SortKeys(S) ==
    IF S = {} THEN <<>>
    ELSE LET m == CHOOSE x \in S : \A y \in S : x <= y
         IN <<m>> \o SortKeys(S \ {m})

\* quill.root.innerHTML: one block per unit, and the empty block an editor
\* without content shows.
RECURSIVE BlocksHTML(_)
BlocksHTML(ops) ==
    IF ops = <<>> THEN <<>>
    ELSE (IF Head(ops).kind = "text" THEN <<"<p>", "x", "</p>">>
          ELSE <<"<p>", "<img>", "</p>">>) \o BlocksHTML(Tail(ops))

innerHTML(ops) == IF ops = <<>> THEN <<"<p><br></p>">> ELSE BlocksHTML(ops)

RECURSIVE Repeat(_, _)
Repeat(c, n) == IF n <= 0 THEN <<>> ELSE <<c>> \o Repeat(c, n - 1)

\* text.replace('\n', ''): the first line break of the text is dropped.
RECURSIVE DropFirstBreak(_)
DropFirstBreak(text) ==
    IF text = <<>> THEN <<>>
    ELSE IF Head(text) = "\n" THEN Tail(text)
    ELSE <<Head(text)>> \o DropFirstBreak(Tail(text))

\* What exportAsMarkdown appends for one op of a Delta.  An op without
\* attributes is a unit without the field `attributes`; a missing
\* attribute is one that is no field of it.
MarkdownOfOp(op) ==
    IF op.kind # "text" THEN <<>>
    ELSE LET text == UnitText(op)
             attrs == IF "attributes" \in DOMAIN op THEN op.attributes ELSE [a \in {} |-> 0]
         IN IF "header" \in DOMAIN attrs
            THEN Repeat("#", attrs.header) \o <<" ">> \o DropFirstBreak(text) \o <<"\n\n">>
            ELSE IF "bold" \in DOMAIN attrs THEN <<"**">> \o text \o <<"**">>
            ELSE IF "italic" \in DOMAIN attrs THEN <<"*">> \o text \o <<"*">>
            ELSE text

RECURSIVE MarkdownOfOps(_)
MarkdownOfOps(ops) ==
    IF ops = <<>> THEN <<>>
    ELSE MarkdownOfOp(Head(ops)) \o MarkdownOfOps(Tail(ops))

\* The forEach of an export over the sorted keys: for each key the label
\* pieces around the page number, then the page's part.
RECURSIVE Concat(_)
Concat(parts) == IF parts = <<>> THEN <<>> ELSE Head(parts) \o Concat(Tail(parts))

ExportPages(keys, before, after, parts) ==
    Concat([i \in 1..Len(keys) |->
               LET pageNum == keys[i]
               IN <<before, ToString(pageNum), after>> \o parts[pageNum]])

HTMLPart(ops) == innerHTML(ops) \o <<"</div>">>

exportAsHTML(s) ==
    <<"<!DOCTYPE html>...<body>\n">>
    \o ExportPages(SortKeys(DOMAIN s.editors),
                   "<div class=\"page-break\"><h3>Page ", "</h3>",
                   [pageNum \in DOMAIN s.editors |-> HTMLPart(s.content[s.editors[pageNum]])])
    \o <<"\n</body>\n</html>">>

exportAsText(s) ==
    ExportPages(SortKeys(DOMAIN s.editors), "\n\n--- Page ", " ---\n\n",
                [pageNum \in DOMAIN s.editors |-> getText(s.content[s.editors[pageNum]])])

exportAsMarkdown(s) ==
    ExportPages(SortKeys(DOMAIN s.editors), "\n\n## Page ", "\n\n",
                [pageNum \in DOMAIN s.editors |-> MarkdownOfOps(s.content[s.editors[pageNum]])])

\* ---------------------------------------------------------------- analysis panel
\* Paragraphs a document holds at most.
MaxParagraphs == 2

\* Entries placed in the analysis queue at most.
MaxEntries == 2

\* Removal timers pending at most.
MaxRemovals == 1

\* The analysis types.  analysisEnabled has five keys handled alike
\* (spelling, grammar, style, coherence, plagiarism); two of them are kept.
Types == <<"spelling", "grammar">>

TypeSet == {Types[i] : i \in 1..Len(Types)}

\* The message "No hay sugerencias disponibles"; the element carries the
\* class text-muted.
Message == [kind |-> "message", node |-> 0]

\* The panel's globals after DOMContentLoaded: everything switched on,
\* nothing suggested, nothing queued, an empty document.
InitGlobals ==
    /\ analysisEnabled = [t \in TypeSet |-> TRUE]
    /\ currentSuggestions = {}
    /\ removals = <<>>
    /\ paragraphAnalysisQueue = <<>>
    /\ inflight = {}
    /\ status = "connected"
    /\ editorData = <<>>
    /\ analysisTimeout = FALSE
    /\ sent = <<>>

\* The panel where nothing is ever analysed: the list stays as loaded.
InitAnalysis ==
    /\ InitGlobals
    /\ suggestionsList = <<>>

\* The panel as one record.
Panel ==
    [enabled |-> analysisEnabled, sugg |-> currentSuggestions,
     list |-> suggestionsList, removals |-> removals,
     queue |-> paragraphAnalysisQueue, inflight |-> inflight, status |-> status,
     data |-> editorData, timeout |-> analysisTimeout, sent |-> sent]

CommitPanel(p) ==
    /\ analysisEnabled' = p.enabled
    /\ currentSuggestions' = p.sugg
    /\ suggestionsList' = p.list
    /\ removals' = p.removals
    /\ paragraphAnalysisQueue' = p.queue
    /\ inflight' = p.inflight
    /\ status' = p.status
    /\ editorData' = p.data
    /\ analysisTimeout' = p.timeout
    /\ sent' = p.sent
    /\ UNCHANGED <<dom, editors, cid, content, currentPage, activeEditor, sel,
                   display, timers, lastSaved, stream, nextUnit, darkMode,
                   bodyClass, animationsEnabled, storage, storageOk, input,
                   output, call>>

\* A paragraph is its trimmed text, kept as "short" (fewer than 5
\* characters) or "long".
Lengths == {"short", "long"}

Docs == UNION {[1..n -> Lengths] : n \in 0..MaxParagraphs}

\* What element.querySelector('.text-muted') sees in one child of the list:
\* the message element has the class itself, and a suggestion item holds a
\* <small class="text-muted"> and an <i class="... text-muted">.
TextMuted(el) == el.kind \in {"message", "suggestion"}

IsItem(el) == el.kind = "suggestion"

\* The number of entries placed in the queue so far: each is still queued or
\* was emitted.
Placed(p) == Len(p.sent) + Len(p.queue)

\* updateStatus(status)
updateStatus(p, st) == [p EXCEPT !.status = st]

\* queueParagraphsForAnalysis(htmlContent, forceAll): one new object per
\* paragraph kept, with paragraph_id 'paragraph-' + index; n tells the
\* objects apart.
RECURSIVE QueueFrom(_, _, _)
QueueFrom(p, i, forceAll) ==
    IF i > Len(p.data) THEN p
    ELSE IF p.data[i] = "short" /\ ~forceAll THEN QueueFrom(p, i + 1, forceAll)
    ELSE QueueFrom([p EXCEPT !.queue = Append(@, [pid |-> i - 1, n |-> Placed(p) + 1])],
                   i + 1, forceAll)

queueParagraphsForAnalysis(p, forceAll) == QueueFrom(p, 1, forceAll)

\* processAnalysisQueue()
processAnalysisQueue(p) ==
    IF Len(p.queue) = 0 THEN updateStatus(p, "ready")
    ELSE LET paragraph == Head(p.queue)
         IN [updateStatus(p, "analyzing") EXCEPT
                !.queue = Tail(p.queue),
                !.inflight = @ \cup {paragraph},
                !.sent = Append(@, paragraph.n)]

\* The elements something still refers to: the children of the list and the
\* items the pending timers hold.
NodesInUse(p) ==
    {p.list[i].node : i \in 1..Len(p.list)}
        \cup {p.removals[i].node : i \in 1..Len(p.removals)}

\* document.createElement: an element that is none of those in use; the
\* least number free names it.
NewNode(p) ==
    CHOOSE k \in 1..(Cardinality(NodesInUse(p)) + 1) :
        /\ k \notin NodesInUse(p)
        /\ \A j \in 1..(k - 1) : j \in NodesInUse(p)

\* addSuggestionToList(id, ...)
addSuggestionToList(p, id) ==
    LET noSuggestions == \E i \in 1..Len(p.list) : TextMuted(p.list[i])
        kept == IF noSuggestions THEN <<>> ELSE p.list
        suggestionElement == [kind |-> "suggestion", type |-> id.type,
                              pid |-> id.pid, node |-> NewNode(p)]
    IN [p EXCEPT !.list = Append(kept, suggestionElement)]

\* processSpellingResults, processGrammarResults, ...: one result of the
\* type for the paragraph.
processResults(p, type, paragraphId) ==
    LET suggestionId == [type |-> type, pid |-> paragraphId]
    IN addSuggestionToList([p EXCEPT !.sugg = @ \cup {suggestionId}], suggestionId)

\* handleAnalysisResults(data) up to the types from the k-th on.
RECURSIVE HandleFrom(_, _, _)
HandleFrom(p, data, k) ==
    IF k > Len(Types) THEN p
    ELSE HandleFrom(IF p.enabled[Types[k]] /\ data.results[Types[k]]
                    THEN processResults(p, Types[k], data.paragraph_id)
                    ELSE p,
                    data, k + 1)

handleAnalysisResults_NoNext(p, data) == HandleFrom(p, data, 1)

\* handleAnalysisResults(data)
handleAnalysisResults(p, data) == processAnalysisQueue(HandleFrom(p, data, 1))

\* showNoSuggestionsMessage()
showNoSuggestionsMessage(p) ==
    IF \E i \in 1..Len(p.list) : TextMuted(p.list[i]) THEN p
    ELSE [p EXCEPT !.list = Append(@, Message)]

\* The suggestion items of a type, in document order.
ItemsOfType(list, type) ==
    SelectSeq(list, LAMBDA el : IsItem(el) /\ el.type = type)

\* removeSuggestionsByType(type): the timers are kept in the order the calls
\* made them, each with its index in its call.
removeSuggestionsByType(p, type) ==
    LET suggestionItems == ItemsOfType(p.list, type)
    IN IF Len(suggestionItems) = 0 THEN p
       ELSE [p EXCEPT
                !.removals = @ \o [i \in 1..Len(suggestionItems) |->
                                     [node |-> suggestionItems[i].node, index |-> i - 1]],
                !.sugg = {id \in @ : id.type # type}]

\* analyzeAllContent()
analyzeAllContent(p) ==
    IF p.data = <<>> THEN p
    ELSE processAnalysisQueue(
             queueParagraphsForAnalysis(updateStatus(p, "analyzing"), TRUE))

\* toggleAnalysisFeature(feature)
toggleAnalysisFeature(p, feature) ==
    LET q == [p EXCEPT !.enabled[feature] = ~@]
    IN IF q.enabled[feature] /\ q.data # <<>> THEN analyzeAllContent(q)
       ELSE IF ~q.enabled[feature] THEN removeSuggestionsByType(q, feature)
       ELSE q

\* The timer of removeSuggestionsByType for one item, index * 100 + 500 ms
\* after the call: item.remove(), and the message when no item is left.
RemoveItem(p, k) ==
    LET node == p.removals[k].node
        rest == SelectSeq(p.list, LAMBDA el : ~(IsItem(el) /\ el.node = node))
        q == [p EXCEPT !.list = rest,
                       !.removals = SubSeq(@, 1, k - 1) \o SubSeq(@, k + 1, Len(@))]
    IN IF \E i \in 1..Len(rest) : IsItem(rest[i]) THEN q
       ELSE showNoSuggestionsMessage(q)

\* A timer fires before every timer that was made later with the same or a
\* larger delay.
MayFire(p, k) ==
    \A j \in 1..(k - 1) : p.removals[j].index > p.removals[k].index

\* ---------------------------------------------------------------- history
\* Offset in the unpaginated document of offset idx of instance q.
RECURSIVE LenBefore(_, _)
LenBefore(s, r) ==
    IF r <= 1 THEN 0 ELSE Len(s.content[s.dom[r - 1].q]) + LenBefore(s, r - 1)

GlobalIndex(s, q, idx) == LenBefore(s, RankOf(s, q)) + idx

\* The pages' units concatenated in ascending rank order.
RECURSIVE DocUpTo(_, _)
DocUpTo(s, k) ==
    IF k = 0 THEN <<>>
    ELSE DocUpTo(s, k - 1) \o
         (IF k \in DOMAIN s.editors THEN s.content[s.editors[k]] ELSE <<>>)

Doc(s) == DocUpTo(s, Max(DOMAIN s.editors \cup {0}))

Event(op, q, ret) == [op |-> op, q |-> q, ret |-> ret]

Fits(s) ==
    /\ Cardinality(DOMAIN s.cid) <= MaxQuills
    /\ Len(s.timers) <= MaxTimers

\* ---------------------------------------------------------------- actions
\* The editor after DOMContentLoaded: one empty page.
InitEditor ==
    /\ dom = <<[id |-> 1, q |-> 1]>>
    /\ editors = (1 :> 1)
    /\ cid = (1 :> 1)
    /\ content = (1 :> <<>>)
    /\ currentPage = 1
    /\ activeEditor = 1
    /\ sel = [q |-> 1, idx |-> 0]
    /\ display = 1
    /\ timers = <<>>
    /\ lastSaved = "Ready"
    /\ stream = <<>>
    /\ nextUnit = 1
    /\ last = Event("init", 1, "none")

NoStorage == [k \in {} |-> ""]

\* Light mode, nothing stored, no function under check.
InitOthers ==
    /\ darkMode = FALSE
    /\ bodyClass = {}
    /\ animationsEnabled = TRUE
    /\ storage = NoStorage
    /\ storageOk = TRUE
    /\ input = <<>>
    /\ output = <<>>
    /\ call = NoCall
    /\ InitAnalysis

Init == InitEditor /\ InitOthers

\* The user clicks into a page: selection-change with a range.
Click ==
    \E i \in 1..Len(dom) : \E idx \in 0..Len(content[dom[i].q]) :
        LET q == dom[i].q
        IN /\ sel # [q |-> q, idx |-> idx]
           /\ Commit(SelectionChange([Cur EXCEPT !.sel = [q |-> q, idx |-> idx]], q))
           /\ last' = Event("click", q, "none")
           /\ UNCHANGED <<stream, nextUnit>>

\* The user types a unit at the cursor.
Type ==
    \E kind \in Kinds :
        LET q == sel.q
            u == [id |-> nextUnit, kind |-> kind]
            s1 == [Cur EXCEPT !.content[q] = InsertAt(content[q], sel.idx, u),
                              !.sel.idx = sel.idx + 1]
            s2 == TextChange(s1, q, "user")
        IN /\ q # 0
           /\ nextUnit <= MaxUnits
           /\ Fits(s2)
           /\ Commit(s2)
           /\ stream' = InsertAt(stream, GlobalIndex(Cur, q, sel.idx), u)
           /\ nextUnit' = nextUnit + 1
           /\ last' = Event("type", q, IF Len(s2.dom) > Len(dom) THEN "created" ELSE "none")

\* The user removes the unit before the cursor.
Erase ==
    LET q == sel.q
        u == content[q][sel.idx]
        s1 == [Cur EXCEPT !.content[q] = RemoveAt(content[q], sel.idx),
                          !.sel.idx = sel.idx - 1]
        s2 == TextChange(s1, q, "user")
    IN /\ q # 0
       /\ sel.idx > 0
       /\ Fits(s2)
       /\ Commit(s2)
       /\ stream' = SelectSeq(stream, LAMBDA x : x # u)
       /\ last' = Event("erase", q, IF Len(s2.dom) > Len(dom) THEN "created" ELSE "none")
       /\ UNCHANGED nextUnit

\* A Backspace or Delete keydown reaches the listener of the focused
\* instance.  When the listener leaves the key to the default handling, the
\* widget's own deletion of a unit is the user edit Erase.
Keydown(key) ==
    LET q == sel.q
        r == KeydownHandler(Cur, q, key)
    IN /\ q # 0
       /\ Fits(r.s)
       /\ Commit(r.s)
       /\ last' = Event(key, q, r.ret)
       /\ UNCHANGED <<stream, nextUnit>>

KeyBackspace == Keydown("Backspace")

KeyDelete == Keydown("Delete")

\* The Enter key binding of instance q, which acts when range.index is 0.
KeyEnter ==
    LET q == sel.q
        r == handleEnterAtBeginning(Cur, q, cid[q])
    IN /\ q # 0
       /\ sel.idx = 0
       /\ Fits(r.s)
       /\ Commit(r.s)
       /\ last' = Event("Enter", q, IF r.ret THEN "handled" ELSE "default")
       /\ UNCHANGED <<stream, nextUnit>>

TimerFire ==
    /\ timers # <<>>
    /\ Commit(RunTimer([Cur EXCEPT !.timers = Tail(timers)], Head(timers)))
    /\ last' = Event("timer", 0, Head(timers).kind)
    /\ UNCHANGED <<stream, nextUnit>>

Next ==
    \/ Click
    \/ Type
    \/ Erase
    \/ KeyBackspace
    \/ KeyDelete
    \/ KeyEnter
    \/ TimerFire

Spec == Init /\ [][Next]_vars

\* One of the export buttons: the file is handed to downloadFile and the
\* editor's state is left as it is.
Export ==
    /\ Commit(Cur)
    /\ last' = Event("export", 0, "none")
    /\ UNCHANGED <<stream, nextUnit>>

NextExport == Next \/ Export

SpecExport == Init /\ [][NextExport]_vars

\* ---------------------------------------------------------------- preferences
\* The preferences as one record the functions below transform.  Each
\* function yields the record after the call and whether it threw.
CurPrefs ==
    [darkMode |-> darkMode, bodyClass |-> bodyClass,
     animationsEnabled |-> animationsEnabled, storage |-> storage,
     storageOk |-> storageOk]

CommitPrefs(p) ==
    /\ darkMode' = p.darkMode
    /\ bodyClass' = p.bodyClass
    /\ animationsEnabled' = p.animationsEnabled
    /\ storage' = p.storage
    /\ storageOk' = p.storageOk

\* String(value), as setItem stores a boolean.
BoolString(b) == IF b THEN "true" ELSE "false"

\* localStorage.setItem(key, value); it throws when the storage cannot be
\* used.
setItem(p, key, value) ==
    IF p.storageOk
    THEN [p |-> [p EXCEPT !.storage = (key :> value) @@ p.storage], threw |-> FALSE]
    ELSE [p |-> p, threw |-> TRUE]

\* localStorage.getItem(key); null is written "null".
getItem(p, key) == IF key \in DOMAIN p.storage THEN p.storage[key] ELSE "null"

\* Mutant: the mode is switched and not stored.
toggleDarkMode_NoStore(p) ==
    [p |-> [p EXCEPT !.darkMode = ~p.darkMode,
                     !.bodyClass = IF ~p.darkMode THEN p.bodyClass \cup {"dark"}
                                   ELSE p.bodyClass \ {"dark"}],
     threw |-> FALSE]

toggleDarkMode(p) ==
    LET p1 == [p EXCEPT !.darkMode = ~p.darkMode,
                        !.bodyClass = IF ~p.darkMode THEN p.bodyClass \cup {"dark"}
                                      ELSE p.bodyClass \ {"dark"}]
        w == setItem(p1, "darkMode", BoolString(p1.darkMode))
    IN [p |-> w.p, threw |-> FALSE]

toggleAnimations(p, enabled) ==
    setItem([p EXCEPT !.animationsEnabled = enabled],
            "editor_animations_enabled", IF enabled THEN "true" ELSE "false")

toggleTheme(p) ==
    IF "dark-theme" \in p.bodyClass
    THEN setItem([p EXCEPT !.bodyClass = p.bodyClass \ {"dark-theme"}], "editor_theme", "light")
    ELSE setItem([p EXCEPT !.bodyClass = p.bodyClass \cup {"dark-theme"}], "editor_theme", "dark")

loadUserPreferences(p) ==
    IF ~p.storageOk THEN [p |-> p, threw |-> TRUE]
    ELSE LET p1 == IF getItem(p, "editor_theme") = "dark"
                   THEN [p EXCEPT !.bodyClass = p.bodyClass \cup {"dark-theme"}] ELSE p
             p2 == IF getItem(p1, "editor_animations_enabled") = "false"
                   THEN [p1 EXCEPT !.animationsEnabled = FALSE] ELSE p1
         IN [p |-> p2, threw |-> FALSE]

\* The part of the DOMContentLoaded initializer that loads the dark mode.
LoadDarkMode(p) ==
    IF p.storageOk /\ getItem(p, "darkMode") = "true" THEN toggleDarkMode(p).p ELSE p

\* A load of the page on the storage of p: the script's globals start from
\* their initial values, then the two DOMContentLoaded listeners run in
\* the order they were added.
Startup(p) ==
    LET fresh == [p EXCEPT !.darkMode = FALSE, !.bodyClass = {},
                           !.animationsEnabled = TRUE]
        l == loadUserPreferences(fresh)
    IN [p |-> LoadDarkMode(l.p), threw |-> l.threw]

StorageValues(key) == IF key = "editor_theme" THEN {"dark", "light"} ELSE {"true", "false"}

\* What this script can have left in localStorage.
StoredStates ==
    UNION {{[k \in D |-> v[k]] :
               v \in [{"darkMode", "editor_theme", "editor_animations_enabled"} ->
                          {"true", "false", "dark", "light"}]} :
           D \in SUBSET {"darkMode", "editor_theme", "editor_animations_enabled"}}

Outcome(r) == IF r.threw THEN "threw" ELSE "done"

\* The page is loaded, with a usable storage holding anything the script
\* can have stored, or with no usable storage.
InitPrefs ==
    /\ InitEditor
    /\ input = <<>> /\ output = <<>> /\ call = NoCall
    /\ InitAnalysis
    /\ storageOk \in BOOLEAN
    /\ storage \in {st \in StoredStates :
                       /\ \A k \in DOMAIN st : st[k] \in StorageValues(k)
                       /\ ~storageOk => st = NoStorage}
    /\ LET r == Startup([darkMode |-> FALSE, bodyClass |-> {}, animationsEnabled |-> TRUE,
                         storage |-> storage, storageOk |-> storageOk]).p
       IN /\ darkMode = r.darkMode
          /\ bodyClass = r.bodyClass
          /\ animationsEnabled = r.animationsEnabled

EditorUnchanged ==
    UNCHANGED <<dom, editors, cid, content, currentPage, activeEditor, sel,
                display, timers, lastSaved, stream, nextUnit, input, output, call,
                analysisVars>>

ToggleDarkMode ==
    LET r == toggleDarkMode(CurPrefs)
    IN CommitPrefs(r.p) /\ last' = Event("toggleDarkMode", 0, Outcome(r)) /\ EditorUnchanged

ToggleTheme ==
    LET r == toggleTheme(CurPrefs)
    IN CommitPrefs(r.p) /\ last' = Event("toggleTheme", 0, Outcome(r)) /\ EditorUnchanged

ToggleAnimations ==
    \E enabled \in BOOLEAN :
        LET r == toggleAnimations(CurPrefs, enabled)
        IN /\ CommitPrefs(r.p)
           /\ last' = Event("toggleAnimations", IF enabled THEN 1 ELSE 0, Outcome(r))
           /\ EditorUnchanged

\* The page is loaded again.
Reload ==
    LET r == Startup(CurPrefs)
    IN CommitPrefs(r.p) /\ last' = Event("startup", 0, Outcome(r)) /\ EditorUnchanged

NextPrefs == ToggleDarkMode \/ ToggleTheme \/ ToggleAnimations \/ Reload

SpecPrefs == InitPrefs /\ [][NextPrefs]_vars

\* ---------------------------------------------------------------- after a renumbering
\* The editor after Enter on the empty page 1, Enter on the empty page 2,
\* Backspace on page 2 and the deferred focus: two empty pages are left, the
\* second was created as page 3 and is now page 2.  Only the instances of
\* the live pages are kept, numbered 1 and 2.
InitRenumbered ==
    /\ dom = <<[id |-> 1, q |-> 1], [id |-> 2, q |-> 2]>>
    /\ editors = (1 :> 1) @@ (2 :> 2)
    /\ cid = (1 :> 1) @@ (2 :> 3)
    /\ content = (1 :> <<>>) @@ (2 :> <<>>)
    /\ currentPage = 2
    /\ activeEditor = 1
    /\ sel = [q |-> 1, idx |-> 0]
    /\ display = 1
    /\ timers = <<>>
    /\ lastSaved = "Ready"
    /\ stream = <<>>
    /\ nextUnit = 1
    /\ last = Event("timer", 0, "focusPrev")
    /\ InitOthers

SpecRenumbered == InitRenumbered /\ [][Next]_vars

\* ---------------------------------------------------------------- structural operations, step by step
\* The same handlers, cut at every point where the script itself hands
\* control to another handler: quill.setContents emits text-change to the
\* handler of the instance before it returns.  Handlers taken from the event
\* queue and timer callbacks start only when no call is in progress.
CommitStep(s, c) ==
    /\ dom' = s.dom /\ editors' = s.editors /\ cid' = s.cid
    /\ content' = s.content /\ currentPage' = s.currentPage
    /\ activeEditor' = s.activeEditor /\ sel' = s.sel
    /\ display' = s.display /\ timers' = s.timers /\ lastSaved' = s.lastSaved
    /\ call' = c
    /\ UNCHANGED <<darkMode, bodyClass, animationsEnabled, storage, storageOk,
                   input, output, analysisVars>>

\* quill.setContents(ops) up to the point where text-change is emitted.
setContentsSilent(s, q, ops) ==
    [s EXCEPT !.content[q] = ops,
              !.sel = IF s.sel.q = q /\ s.sel.idx > Len(ops)
                      THEN [q |-> q, idx |-> Len(ops)] ELSE s.sel]

\* checkPageOverflow and moveOverflowContent up to the while loop: the
\* state and the locals of the call (pc "finish": nothing is moved).
EnterSplit(s, q, containerId) ==
    LET at == ElementIndex(s, containerId)
        done == [s |-> s, c |-> [NoCall EXCEPT !.pc = "finish", !.q = q]]
    IN IF at = 0 THEN done
       ELSE IF ScrollHeight(s.content[s.dom[at].q]) <= pageHeight THEN done
       ELSE LET s1 == createNewPage(s)
            IN IF s1.currentPage \notin DOMAIN s1.editors \/ Len(s1.content[q]) <= 1
               THEN [s |-> s1, c |-> done.c]
               ELSE [s |-> s1,
                     c |-> [NoCall EXCEPT !.pc = "loop", !.q = q, !.el = s1.dom[at].q,
                                          !.ops = s1.content[q]]]

\* Mutant: setContents is called with the source 'user'.
PopUnit_AsUser(s, c) ==
    LET rest == SubSeq(c.ops, 1, Len(c.ops) - 1)
    IN [s |-> setContentsSilent(s, c.q, rest),
        c |-> [c EXCEPT !.pc = "emit", !.ops = rest,
                        !.moveOps = <<c.ops[Len(c.ops)]>> \o c.moveOps,
                        !.emit = c.q, !.source = "user", !.after = "loop"]]

\* One turn of the while loop, up to the emission of text-change.
PopUnit(s, c) ==
    LET rest == SubSeq(c.ops, 1, Len(c.ops) - 1)
    IN [s |-> setContentsSilent(s, c.q, rest),
        c |-> [c EXCEPT !.pc = "emit", !.ops = rest,
                        !.moveOps = <<c.ops[Len(c.ops)]>> \o c.moveOps,
                        !.emit = c.q, !.source = "api", !.after = "loop"]]

\* After the loop: the moved units are set on the page of number currentPage.
Deliver(s, c) ==
    IF Len(c.moveOps) > 0
    THEN [s |-> setContentsSilent(s, s.editors[s.currentPage], c.moveOps),
          c |-> [c EXCEPT !.pc = "emit", !.moveOps = <<>>,
                          !.emit = s.editors[s.currentPage], !.source = "api",
                          !.after = "finish"]]
    ELSE [s |-> s, c |-> [c EXCEPT !.pc = "finish"]]

LoopRuns == ScrollHeight(content[call.el]) > pageHeight /\ Len(call.ops) > 1

\* The user types a unit: the text-change handler starts with source 'user'.
StepType ==
    \E kind \in Kinds :
        LET q == sel.q
            u == [id |-> nextUnit, kind |-> kind]
            s1 == [Cur EXCEPT !.content[q] = InsertAt(content[q], sel.idx, u),
                              !.sel.idx = sel.idx + 1]
            r == EnterSplit(s1, q, cid[q])
        IN /\ call.pc = "idle"
           /\ q # 0
           /\ nextUnit <= MaxUnits
           /\ Fits(r.s)
           /\ CommitStep(r.s, r.c)
           /\ stream' = InsertAt(stream, GlobalIndex(Cur, q, sel.idx), u)
           /\ nextUnit' = nextUnit + 1
           /\ last' = Event("type", q, "user")

StepPop ==
    /\ call.pc = "loop" /\ LoopRuns
    /\ LET r == PopUnit(Cur, call) IN CommitStep(r.s, r.c)
    /\ last' = Event("step", call.q, "pop")
    /\ UNCHANGED <<stream, nextUnit>>

StepDeliver ==
    /\ call.pc = "loop" /\ ~LoopRuns
    /\ LET r == Deliver(Cur, call) IN CommitStep(r.s, r.c)
    /\ last' = Event("step", call.q, "deliver")
    /\ UNCHANGED <<stream, nextUnit>>

\* The text-change handler of the instance whose content was set starts,
\* runs and returns into setContents.
StepEmit ==
    /\ call.pc = "emit"
    /\ Fits(TextChange(Cur, call.emit, call.source))
    /\ CommitStep(TextChange(Cur, call.emit, call.source),
                  [call EXCEPT !.pc = call.after])
    /\ last' = Event("text-change", call.emit, call.source)
    /\ UNCHANGED <<stream, nextUnit>>

\* checkPageOverflow has returned to the handler of the user's change.
StepFinish ==
    /\ call.pc = "finish"
    /\ CommitStep([Cur EXCEPT !.lastSaved = "Unsaved changes"], NoCall)
    /\ last' = Event("step", call.q, "finish")
    /\ UNCHANGED <<stream, nextUnit>>

\* Backspace on an empty page of number above 1: the keydown listener
\* starts and deleteEmptyPage runs up to renumberPages.
StepBackspace ==
    LET q == sel.q
        pageNum == cid[q]
        d == deleteEmptyPage(Cur, pageNum)
    IN /\ call.pc = "idle"
       /\ q # 0
       /\ pageNum > 1 /\ isPageEmpty(content[q])
       /\ Fits(d.s)
       /\ IF d.ret
          THEN CommitStep(RemovePage(Cur, pageNum), [NoCall EXCEPT !.pc = "removed", !.q = q])
          ELSE CommitStep(Cur, NoCall)
       /\ last' = Event("Backspace", q, IF d.ret THEN "deleted" ELSE "refused")
       /\ UNCHANGED <<stream, nextUnit>>

\* renumberPages and updatePageCount, and the return of deleteEmptyPage.
StepRenumber ==
    /\ call.pc = "removed"
    /\ CommitStep(updatePageCount(renumberPages(Cur)), NoCall)
    /\ last' = Event("step", call.q, "renumber")
    /\ UNCHANGED <<stream, nextUnit>>

StepClick == call.pc = "idle" /\ Click

StepTimer == call.pc = "idle" /\ TimerFire

NextSteps ==
    \/ StepType
    \/ StepPop
    \/ StepDeliver
    \/ StepEmit
    \/ StepFinish
    \/ StepBackspace
    \/ StepRenumber
    \/ StepClick
    \/ StepTimer

SpecSteps == Init /\ [][NextSteps]_vars

\* ---------------------------------------------------------------- shortcuts, auto-save, unload
\* text.includes(needle) on the texts #lastSaved can show: "Ready",
\* "Unsaved changes", and "Saved at " or "Auto-saved at " followed by a time
\* of day, written "Saved at T" and "Auto-saved at T".  Only the needle
\* itself contains "Unsaved changes".
Includes(text, needle) ==
    IF needle = "Unsaved changes" THEN text = "Unsaved changes" ELSE text = needle

\* Mutant: the toggle runs for both shortcuts.
GlobalKeydown_ToggleOnSave(s, p, ctrlKey, key) ==
    IF ctrlKey /\ key \in {"s", "d"}
    THEN [s |-> IF key = "s" THEN [s EXCEPT !.lastSaved = "Saved at T"] ELSE s,
          p |-> toggleDarkMode(p).p, prevented |-> TRUE]
    ELSE [s |-> s, p |-> p, prevented |-> FALSE]

\* The keydown listener of the document: the page state and preferences
\* after it, and whether it called preventDefault.
GlobalKeydown(s, p, ctrlKey, key) ==
    LET save == ctrlKey /\ key = "s"
        dark == ctrlKey /\ key = "d"
    IN [s |-> IF save THEN [s EXCEPT !.lastSaved = "Saved at T"] ELSE s,
        p |-> IF dark THEN toggleDarkMode(p).p ELSE p,
        prevented |-> save \/ dark]

\* Mutant: the prompt is asked for whatever the indicator shows.
BeforeUnload_Always(s) == TRUE

\* The beforeunload listener: whether it asks for the confirmation prompt.
BeforeUnload(s) == Includes(s.lastSaved, "Unsaved changes")

ShortcutName(ctrlKey, key) ==
    IF ctrlKey /\ key = "s" THEN "Ctrl+s"
    ELSE IF ctrlKey /\ key = "d" THEN "Ctrl+d"
    ELSE IF ctrlKey THEN "Ctrl+other"
    ELSE "key"

InitShell ==
    /\ InitEditor
    /\ darkMode = FALSE /\ bodyClass = {} /\ animationsEnabled = TRUE
    /\ storage = NoStorage /\ storageOk \in BOOLEAN
    /\ input = <<>> /\ output = <<>> /\ call = NoCall
    /\ InitAnalysis

\* A key goes down anywhere in the document.
DocumentKeydown ==
    \E ctrlKey \in BOOLEAN : \E key \in {"s", "d", "S", "D", "x"} :
        LET r == GlobalKeydown(Cur, CurPrefs, ctrlKey, key)
        IN /\ dom' = r.s.dom /\ editors' = r.s.editors /\ cid' = r.s.cid
           /\ content' = r.s.content /\ currentPage' = r.s.currentPage
           /\ activeEditor' = r.s.activeEditor /\ sel' = r.s.sel
           /\ display' = r.s.display /\ timers' = r.s.timers
           /\ lastSaved' = r.s.lastSaved
           /\ CommitPrefs(r.p)
           /\ last' = Event(ShortcutName(ctrlKey, key), 0,
                            IF r.prevented THEN "prevented" ELSE "default")
           /\ UNCHANGED <<stream, nextUnit, input, output, call, analysisVars>>

\* The callback of the 30 s interval initializeAutoSave starts.
AutoSaveTick ==
    /\ Commit([Cur EXCEPT !.lastSaved = "Auto-saved at T"])
    /\ last' = Event("autosave", 0, "none")
    /\ UNCHANGED <<stream, nextUnit>>

\* The user tries to leave the page (and stays when asked).
Unload ==
    /\ Commit(Cur)
    /\ last' = Event("beforeunload", 0, IF BeforeUnload(Cur) THEN "prompt" ELSE "none")
    /\ UNCHANGED <<stream, nextUnit>>

NextShell == Type \/ Erase \/ DocumentKeydown \/ AutoSaveTick \/ Unload

SpecShell == InitShell /\ [][NextShell]_vars

\* ---------------------------------------------------------------- analysis
\* The page after DOMContentLoaded.  The children #suggestionsList starts
\* with come from the HTML: none, or the message.
InitPanel ==
    /\ InitEditor
    /\ darkMode = FALSE /\ bodyClass = {} /\ animationsEnabled = TRUE
    /\ storage = NoStorage /\ storageOk = TRUE
    /\ input = <<>> /\ output = <<>> /\ call = NoCall
    /\ InitGlobals
    /\ suggestionsList \in {<<>>, <<Message>>}

FitsPanel(p) ==
    /\ Placed(p) <= MaxEntries
    /\ Len(p.removals) <= MaxRemovals

\* change:data with realTimeAnalysis on: the pending analysis is cancelled
\* and a new one is scheduled.
ChangeData ==
    \E d \in Docs :
        /\ CommitPanel([Panel EXCEPT !.data = d, !.timeout = TRUE])
        /\ last' = Event("change:data", 0, "")

\* The timer analysisTimeout fires.
AnalysisTimer ==
    /\ analysisTimeout
    /\ LET p == processAnalysisQueue(
                    queueParagraphsForAnalysis([Panel EXCEPT !.timeout = FALSE], FALSE))
       IN /\ FitsPanel(p)
          /\ CommitPanel(p)
          /\ last' = Event("analysisTimeout", 0, "")

\* A click on one of the toggles.
ToggleFeature ==
    \E feature \in TypeSet :
        LET p == toggleAnalysisFeature(Panel, feature)
        IN /\ FitsPanel(p)
           /\ CommitPanel(p)
           /\ last' = Event("toggle", 0, feature)

\* A click on #analyzeAll.
AnalyzeAll ==
    LET p == analyzeAllContent(Panel)
    IN /\ FitsPanel(p)
       /\ CommitPanel(p)
       /\ last' = Event("analyzeAll", 0, "")

\* The server answers one request: analysis_results with the request's
\* paragraph_id and, for each type, a result or none.
Reply ==
    \E e \in inflight : \E results \in [TypeSet -> BOOLEAN] :
        /\ CommitPanel(handleAnalysisResults(
                           [Panel EXCEPT !.inflight = @ \ {e}],
                           [paragraph_id |-> e.pid, results |-> results]))
        /\ last' = Event("analysis_results", 0, "")

\* A timer of removeSuggestionsByType fires.
RemovalTimer ==
    \E k \in 1..Len(removals) :
        /\ MayFire(Panel, k)
        /\ CommitPanel(RemoveItem(Panel, k))
        /\ last' = Event("remove", 0, "")

NextAnalysis ==
    \/ ChangeData
    \/ AnalysisTimer
    \/ ToggleFeature
    \/ AnalyzeAll
    \/ Reply
    \/ RemovalTimer

SpecAnalysis == InitPanel /\ [][NextAnalysis]_vars

\* The queue alone, with every type left switched on.
NextQueue ==
    \/ ChangeData
    \/ AnalysisTimer
    \/ AnalyzeAll
    \/ Reply

\* Every request sent eventually receives its reply.
SpecQueue == InitPanel /\ [][NextQueue]_vars /\ WF_vars(Reply)

\* ---------------------------------------------------------------- exportAsText alone
MaxExportPages == 3

\* A string insert of one character.
Run(c) == [id |-> 0, kind |-> "text", text |-> <<c>>]

PageContents ==
    {<<>>, <<Run("a")>>, <<Run("b")>>, <<Run("c")>>, <<[id |-> 0, kind |-> "image"]>>}

\* The registries of 1..MaxExportPages pages, each holding at most one op.
Documents ==
    UNION {{[editors |-> [k \in 1..n |-> k], content |-> c] :
                c \in [1..n -> PageContents]} : n \in 1..MaxExportPages}

InitText ==
    /\ InitEditor
    /\ darkMode = FALSE /\ bodyClass = {} /\ animationsEnabled = TRUE
    /\ storage = NoStorage /\ storageOk = TRUE
    /\ input \in Documents
    /\ output = <<>>
    /\ call = NoCall
    /\ InitAnalysis

\* exportAsText on the registry `input`: the file handed to downloadFile.
ExportAsText ==
    /\ output' = exportAsText(input)
    /\ last' = Event("exportAsText", 0, "none")
    /\ UNCHANGED <<dom, editors, cid, content, currentPage, activeEditor, sel,
                   display, timers, lastSaved, stream, nextUnit, darkMode,
                   bodyClass, animationsEnabled, storage, storageOk, input, call,
                   analysisVars>>

NextText == ExportAsText

SpecText == InitText /\ [][NextText]_vars

\* ---------------------------------------------------------------- exportAsMarkdown alone
MaxHeader == 2

\* The attribute objects of an op: any of header (a level), bold, italic
\* and color, an attribute the export does not handle.
AttributeSets ==
    {[k \in D |-> IF k = "header" THEN h ELSE IF k = "color" THEN "red" ELSE TRUE] :
        D \in SUBSET {"header", "bold", "italic", "color"}, h \in 1..MaxHeader}

RunTexts == {<<"a">>, <<"b">>, <<"a", "\n">>}

\* The ops of a Delta: string inserts with and without attributes, and an
\* embed.
Ops ==
    {[id |-> 0, kind |-> "text", text |-> x, attributes |-> a] :
        x \in RunTexts, a \in AttributeSets}
    \cup {[id |-> 0, kind |-> "text", text |-> x] : x \in RunTexts}
    \cup {[id |-> 0, kind |-> "image"]}

InitMarkdown ==
    /\ InitEditor
    /\ darkMode = FALSE /\ bodyClass = {} /\ animationsEnabled = TRUE
    /\ storage = NoStorage /\ storageOk = TRUE
    /\ input \in {[editors |-> <<1>>, content |-> <<<<op>>>>] : op \in Ops}
    /\ output = <<>>
    /\ call = NoCall
    /\ InitAnalysis

\* exportAsMarkdown on the registry `input`.
ExportAsMarkdown ==
    /\ output' = exportAsMarkdown(input)
    /\ last' = Event("exportAsMarkdown", 0, "none")
    /\ UNCHANGED <<dom, editors, cid, content, currentPage, activeEditor, sel,
                   display, timers, lastSaved, stream, nextUnit, darkMode,
                   bodyClass, animationsEnabled, storage, storageOk, input, call,
                   analysisVars>>

NextMarkdown == ExportAsMarkdown

SpecMarkdown == InitMarkdown /\ [][NextMarkdown]_vars

\* ================================================================ claims
Live == {dom[i].q : i \in 1..Len(dom)}

Renumbered == \E i \in 1..Len(dom) : cid[dom[i].q] # i

\* C1 -- Content preservation: in every state, the units of all pages
\* concatenated in ascending rank order are exactly the unpaginated
\* document: nothing dropped, duplicated or out of order.
C1_ContentPreserved == Doc(Cur) = stream

\* C2 -- Rank density: after every operation the keys of `editors` and the
\* ids of the page elements are exactly 1..N, each key bound to the
\* instance of the element with that id, and page 1 exists.
C2_RankDensity ==
    /\ Len(dom) >= 1
    /\ DOMAIN editors = 1..Len(dom)
    /\ \A i \in 1..Len(dom) : dom[i].id = i /\ editors[i] = dom[i].q
    /\ \A i, j \in 1..Len(dom) : dom[i].q = dom[j].q => i = j

C2_Witness == last.ret = "deleted" /\ Len(dom) >= 2 /\ Renumbered

UserEdit == last'.op \in {"type", "erase"}

\* The unit a "type" step inserts.
NewUnit == CHOOSE u \in {stream'[i] : i \in 1..Len(stream')} : u.id = nextUnit

\* The ops of the edited page when its text-change handler starts.
Edited ==
    IF last'.op = "type" THEN InsertAt(content[sel.q], sel.idx, NewUnit)
    ELSE RemoveAt(content[sel.q], sel.idx)

\* The step ran createNewPage and moveOverflowContent.
SplitRan == UserEdit /\ Len(dom') > Len(dom)

\* The units the split took off the edited page.
Moved == SubSeq(Edited, Len(content'[sel.q]) + 1, Len(Edited))

Gone(q) == \A i \in 1..Len(dom') : dom'[i].q # q

DenseAfter(n) ==
    /\ Len(dom') = n
    /\ DOMAIN editors' = 1..n
    /\ \A i \in 1..n : dom'[i].id = i /\ editors'[i] = dom'[i].q

\* C4 -- Split termination: when the split runs on a page that overflows,
\* the loop makes fewer iterations than the page has units, so it ends
\* with at least one unit left on that page, also when the page still
\* overflows afterwards.
C4_SplitTerminates ==
    [][SplitRan /\ ScrollHeight(Edited) > pageHeight
        => /\ Len(content'[sel.q]) >= 1
           /\ Len(Moved) \in 0..(Len(Edited) - 1)]_vars

C4_Witness ==
    /\ last.op = "type" /\ last.ret = "created"
    /\ Len(content[last.q]) = 1
    /\ ScrollHeight(content[last.q]) > pageHeight
    /\ content[dom[Len(dom)].q] # <<>>

\* C5 -- A split partitions the units of the source page: what stays on
\* the source page followed by what the receiving page holds is what the
\* source page held when the split started, in the same order.
C5_SplitPartitions ==
    [][SplitRan => content'[sel.q] \o content'[dom'[Len(dom')].q] = Edited]_vars

C5_Witness ==
    /\ last.op = "type" /\ last.ret = "created"
    /\ Len(dom) = 2
    /\ content[dom[1].q] = <<[id |-> 1, kind |-> "text"]>>
    /\ content[dom[2].q] = <<[id |-> 2, kind |-> "text"]>>

\* C6 -- The units a split pops from the page of rank r are at the front of
\* the page of rank r + 1, ahead of what that page held.
C6_MovedToNextRank ==
    [][SplitRan /\ Moved # <<>>
        => LET r == RankOf(Cur, sel.q)
               held == IF (r + 1) \in DOMAIN editors THEN content[editors[r + 1]] ELSE <<>>
           IN /\ (r + 1) \in DOMAIN editors'
              /\ content'[editors'[r + 1]] = Moved \o held]_vars

\* C7 -- A user edit on a page that has a page after it creates no page.
C7_NoPageWhenNextExists ==
    [][UserEdit /\ (RankOf(Cur, sel.q) + 1) \in DOMAIN editors
        => Len(dom') = Len(dom)]_vars

\* C8 -- Delete pressed in a page of rank r > 1 that holds no unit removes
\* that page and leaves the ranks 1..N-1.
C8_DeleteRemovesEmptyPage ==
    [][last'.op = "Delete" /\ RankOf(Cur, sel.q) > 1 /\ content[sel.q] = <<>>
        => Gone(sel.q) /\ DenseAfter(Len(dom) - 1)]_vars

\* C9 -- Backspace pressed in a page of rank r > 1 that holds no unit
\* removes that page, leaves the ranks 1..N-1 and leaves the content of
\* the page of rank r - 1 as it was.
C9_BackspaceRemovesEmptyPage ==
    [][last'.op = "Backspace" /\ RankOf(Cur, sel.q) > 1 /\ content[sel.q] = <<>>
        => /\ Gone(sel.q) /\ DenseAfter(Len(dom) - 1)
           /\ LET prev == editors[RankOf(Cur, sel.q) - 1]
              IN content'[prev] = content[prev]]_vars

\* Backspace with the cursor at offset 0 of a page of rank r > 1
\* that is not empty is handled by the listener (no default deletion): the
\* content of the page goes to the end of page r - 1, the page is removed,
\* the ranks are 1..N-1 and a focus of page r - 1 at the join point is
\* scheduled; when that callback runs next, the cursor is at the join.
C10_MergeStep ==
    last'.op = "Backspace" /\ RankOf(Cur, sel.q) > 1 /\ sel.idx = 0
        /\ ~isPageEmpty(content[sel.q])
    => LET prev == editors[RankOf(Cur, sel.q) - 1]
       IN /\ last'.ret = "merged"
          /\ content'[prev] = content[prev] \o content[sel.q]
          /\ Gone(sel.q) /\ DenseAfter(Len(dom) - 1)
          /\ timers' = Append(timers,
                 [kind |-> "focusJoin", n |-> prev, idx |-> Len(content[prev])])

C10_JoinFocus ==
    last.ret = "merged" /\ last'.op = "timer" /\ Len(timers) = 1
    => sel' = [q |-> Head(timers).n, idx |-> Head(timers).idx]

C11_EmptyDeletionWins ==
    [][last'.op = "Backspace" /\ RankOf(Cur, sel.q) > 1 /\ sel.idx = 0
         /\ isPageEmpty(content[sel.q]) /\ content[sel.q] = <<>>
        => /\ last'.ret = "deleted"
           /\ Gone(sel.q)
           /\ Len(dom') = Len(dom) - 1
           /\ content' = content]_vars

\* C12 -- Enter at offset 0 of the page of rank 1 leaves that page empty
\* and puts what it held onto the page of rank 2, and a page is created
\* only when there was no page of rank 2.
C12_EnterShiftsToRankTwo ==
    [][last'.op = "Enter" /\ RankOf(Cur, sel.q) = 1 /\ sel.idx = 0
        => /\ last'.ret = "handled"
           /\ content'[sel.q] = <<>>
           /\ 2 \in DOMAIN editors'
           /\ content'[editors'[2]] = content[sel.q]
           /\ Len(dom') = (IF 2 \in DOMAIN editors THEN Len(dom) ELSE 2)]_vars

\* C13 -- when the focus callback of an Enter handled at offset 0 of the
\* page of rank 1 runs, the cursor is at offset 0 of that emptied page and
\* that page is the active one.
C13_FocusStaysOnFirstPage ==
    [][last.op = "Enter" /\ last.ret = "handled" /\ RankOf(Cur, last.q) = 1
         /\ last'.op = "timer" /\ last'.ret = "focusNext"
        => /\ sel' = [q |-> last.q, idx |-> 0]
           /\ activeEditor' = last.q]_vars

\* C14 -- a step that handles one user edit, or one Enter at the start of a
\* page, creates at most one page: the setContents calls made while content
\* is transferred run no overflow check, so the page that receives an
\* Enter shift holds exactly what was shifted even when that overflows.
C14_NoCascade ==
    [][/\ UserEdit \/ last'.op = "Enter" => Len(dom') <= Len(dom) + 1
       /\ last'.op = "Enter" /\ last'.ret = "handled"
            => content'[dom'[Len(dom')].q] = content[sel.q]
       /\ SplitRan => content'[dom'[Len(dom')].q] = Moved]_vars

\* An Enter shifted an overflowing page onto the page it created, which was
\* not split in turn.
C14_Witness ==
    /\ last.op = "Enter" /\ last.ret = "handled"
    /\ ScrollHeight(content[dom[Len(dom)].q]) > pageHeight
    /\ content[last.q] = <<>>

\* The instances of the page elements in document order.
Order(d) == [i \in 1..Len(d) |-> d[i].q]

\* C15 -- a step that deletes an empty page removes one page of some rank
\* r > 1 that isPageEmpty calls empty, keeps the other pages in their
\* order (ranks below r kept, ranks above r lowered by one, registry
\* rebuilt accordingly) and changes no page's content; a step that neither
\* deletes nor merges leaves every live page at its rank.
C15_DeletionFrame ==
    [][/\ last'.ret = "deleted"
            => \E r \in 2..Len(dom) :
                  /\ isPageEmpty(content[dom[r].q])
                  /\ Order(dom') = RemoveAt(Order(dom), r)
                  /\ DenseAfter(Len(dom) - 1)
                  /\ content' = content
       /\ last'.ret \notin {"deleted", "merged"}
            => /\ Len(dom') >= Len(dom)
               /\ \A i \in 1..Len(dom) : dom'[i] = dom[i]]_vars

\* A page of rank 2 was deleted, the page after it took its rank and
\* still holds its unit.
C15_Witness ==
    /\ last.ret = "deleted"
    /\ Len(dom) = 2
    /\ cid[dom[2].q] = 3
    /\ content[dom[2].q] # <<>>

C17_LookupFailureIsSafe ==
    \A q \in Live :
        ElementIndex(Cur, cid[q]) = 0 => checkPageOverflow(Cur, q, cid[q]) = Cur

\* A unit was typed into a page whose containerId selects no element; the
\* page overflows and no page was created.
C17_Witness ==
    /\ last.op = "type" /\ last.ret = "none"
    /\ ElementIndex(Cur, cid[last.q]) = 0
    /\ ScrollHeight(content[last.q]) > pageHeight

\* C18 -- every live page is labelled consistently: the rank under which
\* it is registered, the id of its element and the number its own handlers
\* take from their containerId are all its position among the pages.
C18_LabelsAgree ==
    \A i \in 1..Len(dom) :
        /\ dom[i].id = i
        /\ i \in DOMAIN editors /\ editors[i] = dom[i].q
        /\ cid[dom[i].q] = i

\* C19 -- in every state currentPage is the number of live pages, which is
\* the highest key of the registry, and the page createNewPage would add
\* gets the next rank.
C19_CurrentPageIsLast ==
    /\ currentPage = Len(dom)
    /\ currentPage = Max(DOMAIN editors)
    /\ LET s == createNewPage(Cur)
       IN /\ s.dom[Len(s.dom)].id = Len(dom) + 1
          /\ DOMAIN s.editors = DOMAIN editors \cup {Len(dom) + 1}
          /\ s.currentPage = Len(dom) + 1

\* Three pages were created and the Delete key removed one of them.
C19_Witness ==
    /\ last.op = "Delete" /\ last.ret = "deleted"
    /\ Cardinality(DOMAIN cid) = 3
    /\ currentPage = 2

\* The sections an export has to emit: for each page element in document
\* order, its position as the label and the part of the instance it holds.
Sections(before, after, parts) ==
    Concat([i \in 1..Len(dom) |-> <<before, ToString(i), after>> \o parts[i]])

HTMLParts == [i \in 1..Len(dom) |-> HTMLPart(content[dom[i].q])]

TextParts == [i \in 1..Len(dom) |-> getText(content[dom[i].q])]

MarkdownParts == [i \in 1..Len(dom) |-> MarkdownOfOps(content[dom[i].q])]

\* The page numbers of a file: the pieces that follow the piece `before`.
RECURSIVE Labels(_, _)
Labels(file, before) ==
    IF Len(file) < 2 THEN <<>>
    ELSE (IF Head(file) = before THEN <<file[2]>> ELSE <<>>) \o Labels(Tail(file), before)

\* C20 -- in every state each of the three exports consists of one
\* section per live page, in ascending rank order, each labelled with the
\* current rank of its page and holding that page's content.
C20_ExportSections ==
    /\ exportAsText(Cur) = Sections("\n\n--- Page ", " ---\n\n", TextParts)
    /\ exportAsMarkdown(Cur) = Sections("\n\n## Page ", "\n\n", MarkdownParts)
    /\ exportAsHTML(Cur) =
          <<"<!DOCTYPE html>...<body>\n">>
          \o Sections("<div class=\"page-break\"><h3>Page ", "</h3>", HTMLParts)
          \o <<"\n</body>\n</html>">>
    /\ \A f \in {<<exportAsText(Cur), "\n\n--- Page ">>,
                 <<exportAsMarkdown(Cur), "\n\n## Page ">>,
                 <<exportAsHTML(Cur), "<div class=\"page-break\"><h3>Page ">>} :
          Labels(f[1], f[2]) = [i \in 1..Len(dom) |-> ToString(i)]

\* An export made after three pages were created and one that was not the
\* last was deleted, with a unit on the page that changed rank.
C20_Witness ==
    /\ last.op = "export"
    /\ Len(dom) = 2
    /\ cid[dom[2].q] = 3
    /\ content[dom[2].q] # <<>>

\* The registry of three pages with content "a", "b", "c".
DocABC ==
    [editors |-> <<1, 2, 3>>, content |-> <<<<Run("a")>>, <<Run("b")>>, <<Run("c")>>>>]

\* C21 as stated -- the plain-text export of pages "a", "b", "c" is each
\* separator followed by the page's letter and nothing else.
C21_ExactText ==
    last.op = "exportAsText" /\ input = DocABC
        => output = <<"\n\n--- Page ", "1", " ---\n\n", "a",
                      "\n\n--- Page ", "2", " ---\n\n", "b",
                      "\n\n--- Page ", "3", " ---\n\n", "c">>

\* The pieces of the text export from page i on: separator, the characters
\* of the page's string inserts, the line terminator.
RECURSIVE TextSections(_, _)
TextSections(doc, i) ==
    IF i > Cardinality(DOMAIN doc.editors) THEN <<>>
    ELSE <<"\n\n--- Page ", ToString(i), " ---\n\n">>
         \o UnitsText(doc.content[doc.editors[i]]) \o <<"\n">>
         \o TextSections(doc, i + 1)

\* C21 amended -- each page contributes its separator followed by its text
\* as the widget returns it, which ends with a line terminator: for pages
\* "a", "b", "c" a line terminator follows each letter.
C21_TextWithTerminators ==
    last.op = "exportAsText"
        => /\ output = TextSections(input, 1)
           /\ input = DocABC
                => output = <<"\n\n--- Page ", "1", " ---\n\n", "a", "\n",
                              "\n\n--- Page ", "2", " ---\n\n", "b", "\n",
                              "\n\n--- Page ", "3", " ---\n\n", "c", "\n">>

C21_Witness == last.op = "exportAsText" /\ input = DocABC /\ Len(output) = 15

Pieces(file) == {file[i] : i \in 1..Len(file)}

\* C22 -- in the markdown export of a page holding one text run, what
\* follows the page heading reflects each of header, bold and italic that
\* the run carries, and is the run's text unchanged when it carries none of
\* them.
C22_AttributesTranslated ==
    last.op = "exportAsMarkdown" /\ input.content[1][1].kind = "text"
        => LET op == input.content[1][1]
               a == IF "attributes" \in DOMAIN op THEN DOMAIN op.attributes ELSE {}
               body == SubSeq(output, 4, Len(output))
           IN /\ SubSeq(output, 1, 3) = <<"\n\n## Page ", "1", "\n\n">>
              /\ "header" \in a
                    => /\ Len(body) > op.attributes.header
                       /\ \A i \in 1..op.attributes.header : body[i] = "#"
                       /\ body[op.attributes.header + 1] = " "
              /\ "bold" \in a => "**" \in Pieces(body)
              /\ "italic" \in a => "*" \in Pieces(body)
              /\ a \cap {"header", "bold", "italic"} = {} => body = op.text

\* C23 -- with a usable storage, in every state the stored dark-mode flag
\* is the in-memory mode written as a string, nothing stored goes with
\* light mode, the body carries the class "dark" exactly in dark mode, and
\* a load of the page on this storage ends in the same mode.
C23_DarkModeRoundTrip ==
    storageOk
        => /\ "darkMode" \in DOMAIN storage => storage["darkMode"] = BoolString(darkMode)
           /\ "darkMode" \notin DOMAIN storage => ~darkMode
           /\ ("dark" \in bodyClass) = darkMode
           /\ Startup(CurPrefs).p.darkMode = darkMode
           /\ Startup([CurPrefs EXCEPT !.storage = NoStorage]).p.darkMode = FALSE

\* The page was loaded again after a toggle into dark mode and is dark.
C23_Witness ==
    /\ last.op = "startup" /\ storageOk
    /\ darkMode /\ storage["darkMode"] = "true"

\* C24 -- without a usable storage every preference operation completes
\* without an error and has its in-memory effect.
C24_StorageFailureIsSilent ==
    [][~storageOk
        => /\ last'.op \in {"toggleDarkMode", "toggleTheme", "toggleAnimations", "startup"}
                => last'.ret = "done"
           /\ last'.op = "toggleDarkMode" => darkMode' = ~darkMode
           /\ last'.op = "toggleTheme"
                => ("dark-theme" \in bodyClass') = ("dark-theme" \notin bodyClass)
           /\ last'.op = "toggleAnimations" => animationsEnabled' = (last'.q = 1)]_vars

\* C25 -- the beforeunload listener asks for the confirmation prompt
\* exactly in the states where #lastSaved shows the unsaved-changes text.
C25_UnloadGuard ==
    [][last'.op = "beforeunload"
        => (last'.ret = "prompt") = (lastSaved = "Unsaved changes")]_vars

\* The user was asked after an edit, with the page created by it.
C25_Witness ==
    /\ last.op = "beforeunload" /\ last.ret = "prompt"
    /\ lastSaved = "Unsaved changes"
    /\ Len(dom) = 2

PagesUnchanged ==
    UNCHANGED <<dom, editors, cid, content, currentPage, activeEditor, sel,
                display, timers>>

RanksDense ==
    /\ \A i \in 1..Len(dom) : dom[i].id = i
    /\ DOMAIN editors = 1..Len(dom)

\* No page is removed and not yet renumbered, and no unit is held by a call.
Settled == RanksDense /\ call.moveOps = <<>> /\ call.pc # "removed"

HandlerStarts == last'.op # "step"

\* C27 -- no handler and no deferred callback starts while a page is
\* removed and the ranks are not renumbered, or while a unit has left a page
\* and has not arrived on another.
C27_Atomic == [][HandlerStarts => Settled]_vars

\* C27, amended -- handlers of user events and deferred callbacks start only
\* in settled states; the one handler that starts inside a split is the
\* text-change handler of the page being split, called by setContents with
\* source 'api', and it changes nothing.
C27_TasksAtomic ==
    [][HandlerStarts /\ ~Settled
        => /\ last'.op = "text-change" /\ last'.ret = "api"
           /\ last'.q = call.q
           /\ PagesUnchanged /\ UNCHANGED lastSaved]_vars

\* A keystroke is handled after a split during which the text-change
\* handler has run, and after a deletion.
C27_Witness ==
    /\ call.pc = "idle"
    /\ last.op = "Backspace" /\ last.ret = "refused"
    /\ Len(dom) = 2 /\ Cardinality(DOMAIN cid) = 3
    /\ Len(content[1]) = 1 /\ Len(content[dom[2].q]) = 1

\* C28 -- when the callback deferred by a deletion fires, the focus and
\* the cursor go to the end of the page that had the rank before the deleted
\* one, whatever was handled in between.
C28_FocusPreviousPage ==
    [][timers # <<>> /\ last'.op = "timer" /\ last'.ret = "focusPrev"
        => LET prev == editors[Head(timers).n]
           IN sel' = [q |-> prev, idx |-> Len(content[prev])]]_vars

\* C29 -- when a split completes, the page it split no longer overflows or
\* holds exactly one unit.
C29_SplitRunsToTheEnd ==
    [][SplitRan
        => \/ ScrollHeight(content'[sel.q]) <= pageHeight
           \/ Len(content'[sel.q]) = 1]_vars

\* A split moved an image off a page and left it one paragraph.
C29_Witness ==
    /\ last.op = "type" /\ last.ret = "created"
    /\ Len(content[last.q]) = 1 /\ content[last.q][1].kind = "text"
    /\ ScrollHeight(content[last.q]) <= pageHeight
    /\ Len(content[dom[Len(dom)].q]) = 1 /\ content[dom[Len(dom)].q][1].kind = "image"

\* C30 -- a page that Backspace or Delete removes as empty holds no unit:
\* neither a text run nor an image.
C30_OnlyEmptyPagesDeleted ==
    [][last'.op \in {"Backspace", "Delete"} /\ last'.ret = "deleted"
        => \A i \in 1..Len(dom) : Gone(dom[i].q) => content[dom[i].q] = <<>>]_vars

\* C31 -- a Backspace or Delete keystroke removes no page other than the
\* one the key was pressed in.
C31_OnlyOwnPageRemoved ==
    [][last'.op \in {"Backspace", "Delete"}
        => \A i \in 1..Len(dom) : Gone(dom[i].q) => dom[i].q = sel.q]_vars

\* C32 -- a user edit on a page that does not overflow creates no page and
\* moves none of that page's units.  Stated on the overflow check the
\* text-change handler of the page runs on the edited state: for a page that
\* does not overflow it leaves the pages and their contents as they are.
C32_OverflowOnOwnExtent ==
    \A i \in 1..Len(dom) :
        LET q == dom[i].q
            after == checkPageOverflow(Cur, q, cid[q])
        IN ScrollHeight(content[q]) <= pageHeight
              => after.dom = dom /\ after.content = content

\* C33 -- when a user edit on an overflowing page creates a page, at least
\* one unit is moved onto the created page.
C33_CreatedPageReceivesContent ==
    [][SplitRan /\ ScrollHeight(Edited) > pageHeight
        => content'[dom'[Len(dom')].q] # <<>>]_vars

\* C34 -- the current-page display shows a number in 1..N, and it is the
\* rank of the page holding the selection.
C34_DisplayShowsLiveRank ==
    /\ display \in 1..Len(dom)
    /\ sel.q # 0 => display = RankOf(Cur, sel.q)

\* C35 -- activeEditor is the editor registered under a rank in 1..N, and
\* never the editor of a deleted page.
C35_ActiveEditorLive ==
    /\ \E r \in 1..Len(dom) : r \in DOMAIN editors /\ editors[r] = activeEditor
    /\ activeEditor \in Live

\* The user clicked into a page that a deletion moved from rank 3 to rank 2.
C35_Witness ==
    /\ last.op = "click" /\ last.q = 3
    /\ activeEditor = 3
    /\ Len(dom) = 2 /\ editors[2] = 3 /\ cid[3] = 3

\* The unload guard is armed: leaving the page asks for confirmation.
Armed == BeforeUnload(Cur)

\* C36 -- a user edit arms the unload guard, nothing but Ctrl+S disarms
\* it, and leaving the page while it is armed asks for confirmation: so
\* after an edit with no Ctrl+S since, leaving the page asks.
C36_EditArmsGuard ==
    [][/\ UserEdit => Armed'
       /\ Armed /\ ~Armed' => last'.op = "Ctrl+s"
       /\ Armed /\ last'.op = "beforeunload" => last'.ret = "prompt"]_vars


Busy == paragraphAnalysisQueue # <<>> \/ inflight # {}

Idle == paragraphAnalysisQueue = <<>> /\ inflight = {} /\ status = "ready"

\* C37: while an analysis type is switched off, currentSuggestions holds no
\* suggestion of that type, whatever results arrived before the switch or
\* arrive after it.
C37_NoSuggestionOfDisabledType ==
    \A ty \in TypeSet :
        ~analysisEnabled[ty] => \A id \in currentSuggestions : id.type # ty

\* The list shows an item for the suggestion id.
Listed(list, id) ==
    \E i \in 1..Len(list) :
        IsItem(list[i]) /\ list[i].type = id.type /\ list[i].pid = id.pid

\* C38: handling analysis results, the only caller of addSuggestionToList,
\* removes no suggestion item from the list: every item listed before is
\* listed after, and the list then holds an item for every entry of
\* currentSuggestions.
C38_AddKeepsItems ==
    [][last'.op = "analysis_results"
        => /\ \A i \in 1..Len(suggestionsList) :
                 IsItem(suggestionsList[i])
                    => \E j \in 1..Len(suggestionsList') :
                           suggestionsList'[j] = suggestionsList[i]
           /\ \A id \in currentSuggestions' : Listed(suggestionsList', id)]_vars

\* Entry n is waiting in the queue.
Queued(n) ==
    \E i \in 1..Len(paragraphAnalysisQueue) : paragraphAnalysisQueue[i].n = n

\* How often entry n was emitted.
TimesSent(n) == Cardinality({i \in 1..Len(sent) : sent[i] = n})

\* C39: when every request sent is eventually answered, every entry placed
\* in the analysis queue is sent exactly once (at any time it either waits in
\* the queue, never emitted, or has left the queue, emitted once), and
\* whenever something is queued or awaits its reply, the queue eventually is
\* empty with every reply received and the status 'ready'.
C39_QueueDrains ==
    /\ [](\A n \in 1..Placed(Panel) :
             IF Queued(n) THEN TimesSent(n) = 0 ELSE TimesSent(n) = 1)
    /\ Busy ~> Idle

\* Two entries were placed and sent, the last reply has arrived and the queue
\* has drained.
C39_Witness ==
    /\ Len(sent) >= 2
    /\ Idle
    /\ last.op = "analysis_results"

====
